---- MODULE Spec2Model ----
(***************************************************************************)
(* A model of rockit's Stage (src/rockit/stage.py): the stage tree, its    *)
(* symbol registries, the dynamics maps, the constraint registry, the      *)
(* placeholder registry, cloning and the transcribed flag.                 *)
(*                                                                         *)
(* Symbols of the expression engine are identities: a symbol is a positive *)
(* integer drawn from an arena counter (nsym), and MX.sym mints the next   *)
(* one.  An expression is the sequence of its leaves in tree order: a      *)
(* symbol or the constant 0.  depends_on is leaf membership, substitute    *)
(* is the simultaneous replacement of leaves, and a + b, a >= b are the    *)
(* concatenation of the operands' leaves.                                  *)
(*                                                                         *)
(* A call of the program is a function from a "world" (the heap: every     *)
(* stage, the arenas, the exception in flight, the value returned) to a    *)
(* world, so that a handler that calls other handlers is the composition   *)
(* of their functions.  An action applies one public call and commits the  *)
(* resulting world.                                                        *)
(***************************************************************************)
EXTENDS Integers, Sequences, FiniteSets, TLC

\* st      the stages of the program, by identity 1..Len(st)
\* nsym    the symbols minted so far (the arena of the expression engine)
\* nobj    the method objects created so far
\* passes  how many times the two-phase transcription pass has run
\* last    the last call: its name, receiver, arguments, outcome, and the
\*         calls it made into the method protocol
\* ncalls  the calls made since construction
\* run     the workload of this run: which calls are made with which inputs
VARIABLES st, nsym, nobj, passes, last, ncalls, run

vars == <<st, nsym, nobj, passes, last, ncalls, run>>

(* ------------------------------ bounds --------------------------------- *)
\* calls made after construction in one run, per workload
MaxCalls == 3
MaxCallsDyn == 3
MaxCallsCon == 2
MaxCallsClone == 3
MaxCallsTpl == 3
MaxCallsPass == 3
\* stages of one tree
MaxStages == 3
MaxStagesClone == 2
MaxStagesVisit == 4
\* FreeTime hints and numeric values offered as inputs are 1..MaxVal
MaxVal == 2

(* ------------------------- the program's constants --------------------- *)
Tags == {"", "control", "states"}
GridOrder == <<"point", "control", "inf", "integrator", "integrator_roots">>
Grids == {GridOrder[i] : i \in 1..Len(GridOrder)}
Kinds == {"T", "t0", "at_t0", "at_tf", "integral_control", "sum_control"}
None == 0

(* --------------- identity-keyed, insertion-ordered maps ---------------- *)
\* A map is the sequence of its <<key, value>> entries in insertion order.
Keys(m) == [i \in 1..Len(m) |-> m[i][1]]
Values(m) == [i \in 1..Len(m) |-> m[i][2]]
Has(m, k) == \E i \in 1..Len(m) : m[i][1] = k
Get(m, k) == m[CHOOSE i \in 1..Len(m) : m[i][1] = k][2]
Put(m, k, v) ==
    IF Has(m, k)
    THEN [i \in 1..Len(m) |-> IF m[i][1] = k THEN <<k, v>> ELSE m[i]]
    ELSE Append(m, <<k, v>>)
Range(s) == {s[i] : i \in 1..Len(s)}

(* ----------------------------- expressions ----------------------------- *)
depends_on(expr, syms) == \E i \in 1..Len(expr) : expr[i] \in syms
SubstLeaf(a, from, to) ==
    IF \E i \in 1..Len(from) : from[i] = a
    THEN to[CHOOSE i \in 1..Len(from) : from[i] = a]
    ELSE a
\* substitute(ex, v, vdef) on one expression: simultaneous replacement
substitute(expr, from, to) ==
    [i \in 1..Len(expr) |-> SubstLeaf(expr[i], from, to)]

(* -------------------------- time values -------------------------------- *)
\* _t0 and _T hold a number, a FreeTime sentinel with its hint, or a symbol
Num(v) == [k |-> "num", v |-> v]
FreeTime(hint) == [k |-> "free", v |-> hint]
SymVal(s) == [k |-> "sym", v |-> s]

(* ------------------------------ the heap ------------------------------- *)
World == [st |-> st, nsym |-> nsym, nobj |-> nobj, passes |-> passes,
          raised |-> "none", ret |-> 0, log |-> <<>>]

Raise(w, e) == [w EXCEPT !.raised = e]

\* Stage.is_transcribed, read through node n
is_transcribed(w, n) ==
    IF w.st[n].master # None THEN w.st[w.st[n].master].is_transcribed ELSE FALSE

\* a plausible slip: the flag is written on the node itself, not on its master
set_transcribed_own(w, n, val) ==
    IF w.st[n].master # None
    THEN [w EXCEPT !.st[n].is_transcribed = val]
    ELSE w

\* Stage._set_transcribed
set_transcribed(w, n, val) ==
    IF w.st[n].master # None
    THEN [w EXCEPT !.st[w.st[n].master].is_transcribed = val]
    ELSE w

\* Stage._create_placeholder_expr: a fresh proxy symbol for (expr, callback)
create_placeholder_expr(w, n, expr, callback_name) ==
    IF w.raised # "none" THEN w ELSE
    LET r == w.nsym + 1
        w1 == [w EXCEPT !.nsym = r,
                        !.st[n].placeholders = Put(@, r, expr),
                        !.st[n].placeholder_callbacks = Put(@, r, callback_name)]
        m == w.st[n].master
        w2 == IF m # None THEN [w1 EXCEPT !.st[m].ph_dirty = TRUE] ELSE w1
    IN [w2 EXCEPT !.ret = r]

\* Stage.is_signal: x, u, z, t, the 'control' and 'states' variables and the
\* derivative-override symbols; the quadrature states are not part of x
SignalSyms(s) ==
    Range(s.states) \cup Range(s.controls) \cup Range(s.algebraics) \cup {s.t}
    \cup Range(s.variables["control"]) \cup Range(s.variables["states"])
    \cup Range(Keys(s.inf_der))
is_signal(w, n, expr) == depends_on(expr, SignalSyms(w.st[n]))

\* Stage.state
state(w, n, quad) ==
    IF w.raised # "none" THEN w ELSE
    LET x == w.nsym + 1
        w1 == [w EXCEPT !.nsym = x,
                        !.st[n].qstates = IF quad THEN Append(@, x) ELSE @,
                        !.st[n].states = IF quad THEN @ ELSE Append(@, x)]
    IN [set_transcribed(w1, n, FALSE) EXCEPT !.ret = x]

\* Stage.algebraic
algebraic(w, n) ==
    IF w.raised # "none" THEN w ELSE
    LET z == w.nsym + 1
        w1 == [w EXCEPT !.nsym = z, !.st[n].algebraics = Append(@, z)]
    IN [set_transcribed(w1, n, FALSE) EXCEPT !.ret = z]

\* Stage.variable
variable(w, n, grid) ==
    IF w.raised # "none" THEN w ELSE
    LET v == w.nsym + 1
        w1 == [w EXCEPT !.nsym = v, !.st[n].variables[grid] = Append(@, v)]
    IN [set_transcribed(w1, n, FALSE) EXCEPT !.ret = v]

\* Stage.parameter
parameter(w, n, grid) ==
    IF w.raised # "none" THEN w ELSE
    LET p == w.nsym + 1
        w1 == [w EXCEPT !.nsym = p, !.st[n].parameters[grid] = Append(@, p)]
    IN [set_transcribed(w1, n, FALSE) EXCEPT !.ret = p]

\* Stage.set_der: the assertion comes before the store
set_der(w, n, x, der) ==
    IF w.raised # "none" THEN w ELSE
    LET w1 == set_transcribed(w, n, FALSE)
    IN IF w1.st[n].state_next # <<>>
       THEN Raise(w1, "AssertionError")
       ELSE [w1 EXCEPT !.st[n].state_der = Put(@, x, der), !.ret = 0]

\* a plausible slip: a second rule for a state is added, not overwritten
set_next_append(w, n, x, nxt) ==
    IF w.raised # "none" THEN w ELSE
    LET w1 == set_transcribed(w, n, FALSE)
        w2 == [w1 EXCEPT !.st[n].state_next = Append(@, <<x, nxt>>), !.ret = 0]
    IN IF w2.st[n].state_der # <<>> THEN Raise(w2, "AssertionError") ELSE w2

\* Stage.set_next: the store comes before the assertion
set_next(w, n, x, nxt) ==
    IF w.raised # "none" THEN w ELSE
    LET w1 == set_transcribed(w, n, FALSE)
        w2 == [w1 EXCEPT !.st[n].state_next = Put(@, x, nxt), !.ret = 0]
    IN IF w2.st[n].state_der # <<>> THEN Raise(w2, "AssertionError") ELSE w2

\* a plausible slip: the helper of a higher-order control is a raw control
control_flat(w, n, order) ==
    IF w.raised # "none" THEN w ELSE
    LET u == w.nsym + 1
        raw == w.nsym + 2
    IN IF order >= 1
       THEN set_der([set_transcribed(w, n, FALSE)
                       EXCEPT !.nsym = raw,
                              !.st[n].states = Append(@, u),
                              !.st[n].controls = Append(@, raw),
                              !.ret = u],
                    n, u, <<raw>>)
       ELSE [set_transcribed(w, n, FALSE)
               EXCEPT !.nsym = u, !.st[n].controls = Append(@, u), !.ret = u]

\* Stage.control: an order-k control is a state whose derivative is an
\* order-(k-1) control
RECURSIVE control(_, _, _)
control(w, n, order) ==
    IF w.raised # "none" THEN w ELSE
    IF order >= 1
    THEN LET w1 == state(w, n, FALSE)
             u == w1.ret
             w2 == control(w1, n, order - 1)
             helper_u == w2.ret
             w3 == set_der(w2, n, u, <<helper_u>>)
         IN IF w3.raised # "none" THEN w3 ELSE [w3 EXCEPT !.ret = u]
    ELSE LET u == w.nsym + 1
             w1 == [w EXCEPT !.nsym = u, !.st[n].controls = Append(@, u)]
         IN [set_transcribed(w1, n, FALSE) EXCEPT !.ret = u]

\* the method protocol is external: a call into it is recorded in the log
LogCall(w, call, n, arg) ==
    [w EXCEPT !.log = Append(@, [call |-> call, node |-> n, arg |-> arg])]

\* a plausible slip: the value is only ever stored, never pushed to the model
set_value_never_pushes(w, n, p, value) ==
    IF w.raised # "none" THEN w ELSE
    [w EXCEPT !.st[n].param_vals = Put(@, p, value)]

\* Stage.set_value
set_value(w, n, p, value) ==
    IF w.raised # "none" THEN w ELSE
    IF w.st[n].master # None /\ is_transcribed(w, w.st[n].master)
    THEN LogCall(w, "set_value", n, p)
    ELSE [w EXCEPT !.st[n].param_vals = Put(@, p, value)]

\* Stage.set_initial; the key is an expression
set_initial(w, n, var, value) ==
    IF w.raised # "none" THEN w ELSE
    LET w1 == [w EXCEPT !.st[n].initial = Put(@, var, value)]
    IN IF w1.st[n].master # None /\ is_transcribed(w1, w1.st[n].master)
       THEN LogCall(w1, "set_initial", n, 0)
       ELSE w1

\* a plausible slip: the inferred grid is not written into the options
subject_to_keeps_none(w, n, constr, grid, include_first, include_last) ==
    IF w.raised # "none" THEN w ELSE
    LET w1 == set_transcribed(w, n, FALSE)
        sig == is_signal(w1, n, constr)
        g == IF grid = "None" THEN (IF sig THEN "control" ELSE "point") ELSE grid
        args == [grid |-> grid, include_last |-> include_last,
                 include_first |-> include_first]
    IN IF g \notin Grids THEN Raise(w1, "Invalid argument")
       ELSE IF sig /\ g = "point" THEN Raise(w1, "Got a signal expression")
       ELSE IF ~sig /\ g # "point" THEN Raise(w1, "Expected signal expression")
       ELSE [w1 EXCEPT !.st[n].constraints[g] =
                           Append(@, [expr |-> constr, args |-> args])]

\* a plausible slip: the entry is stored before the grid is validated
subject_to_store_first(w, n, constr, grid, include_first, include_last) ==
    IF w.raised # "none" THEN w ELSE
    LET w1 == set_transcribed(w, n, FALSE)
        sig == is_signal(w1, n, constr)
        g == IF grid = "None" THEN (IF sig THEN "control" ELSE "point") ELSE grid
        args == [grid |-> g, include_last |-> include_last,
                 include_first |-> include_first]
        w2 == IF g \in Grids
              THEN [w1 EXCEPT !.st[n].constraints[g] =
                                  Append(@, [expr |-> constr, args |-> args])]
              ELSE w1
    IN IF g \notin Grids THEN Raise(w1, "Invalid argument")
       ELSE IF sig /\ g = "point" THEN Raise(w2, "Got a signal expression")
       ELSE IF ~sig /\ g # "point" THEN Raise(w2, "Expected signal expression")
       ELSE w2

\* Stage.subject_to; grid "None" is the unset grid.  The metadata of an entry
\* (get_meta) is a source-location record of no consequence here and is left
\* out of the entry.
subject_to(w, n, constr, grid, include_first, include_last) ==
    IF w.raised # "none" THEN w ELSE
    LET w1 == set_transcribed(w, n, FALSE)
        sig == is_signal(w1, n, constr)
        g == IF grid = "None" THEN (IF sig THEN "control" ELSE "point") ELSE grid
        args == [grid |-> g, include_last |-> include_last,
                 include_first |-> include_first]
    IN IF g \notin Grids THEN Raise(w1, "Invalid argument")
       ELSE IF sig /\ g = "point" THEN Raise(w1, "Got a signal expression")
       ELSE IF ~sig /\ g # "point" THEN Raise(w1, "Expected signal expression")
       ELSE [w1 EXCEPT !.st[n].constraints[g] =
                           Append(@, [expr |-> constr, args |-> args])]

\* Stage.add_objective
add_objective(w, n, term) ==
    IF w.raised # "none" THEN w ELSE
    LET w1 == set_transcribed(w, n, FALSE)
    IN [w1 EXCEPT !.st[n].objective = @ \o term]

\* Stage.at_t0, Stage.at_tf
at_t0(w, n, expr) == create_placeholder_expr(w, n, expr, "at_t0")
at_tf(w, n, expr) == create_placeholder_expr(w, n, expr, "at_tf")

\* Stage.integral
integral(w, n, expr, grid) ==
    IF w.raised # "none" THEN w ELSE
    IF grid = "inf"
    THEN LET w1 == state(w, n, TRUE)
             I == w1.ret
             w2 == set_der(w1, n, I, expr)
         IN at_tf(w2, n, <<I>>)
    ELSE create_placeholder_expr(w, n, expr, "integral_control")

\* Stage.sum (named sum_ here: the grid argument is not read)
sum_(w, n, expr, grid) == create_placeholder_expr(w, n, expr, "sum_control")

\* a plausible slip: a non-integer shift is truncated, not refused
offset_truncates(w, n, expr, halves) ==
    IF w.raised # "none" THEN w ELSE
    LET ret == w.nsym + 1
    IN [w EXCEPT !.nsym = ret, !.ret = ret,
                 !.st[n].offsets = Put(@, ret, <<expr, halves \div 2>>)]

\* Stage.offset; the shift is given in halves so that 3 stands for 1.5
offset(w, n, expr, halves) ==
    IF w.raised # "none" THEN w ELSE
    IF halves % 2 # 0 THEN Raise(w, "Integer expected")
    ELSE LET ret == w.nsym + 1
         IN [w EXCEPT !.nsym = ret, !.ret = ret,
                      !.st[n].offsets = Put(@, ret, <<expr, halves \div 2>>)]

\* Stage.next, Stage.prev
next(w, n, expr) == offset(w, n, expr, 2)
prev(w, n, expr) == offset(w, n, expr, -2)

\* Stage.inf_der
inf_der(w, n, expr) ==
    IF w.raised # "none" THEN w ELSE
    LET ret == w.nsym + 1
    IN [w EXCEPT !.nsym = ret, !.ret = ret,
                 !.st[n].inf_der = Put(@, ret, expr)]

\* no method object: what Python's None is in the place of a method
NoMethod ==
    [id |-> None, N |-> 0, M |-> 0, R |-> 0, poly |-> FALSE, bad |-> {}]

\* a plausible slip: the stage keeps the caller's object
method_shared(w, n, m) ==
    IF w.raised # "none" THEN w ELSE
    [set_transcribed(w, n, FALSE) EXCEPT !.st[n].method = m]

\* Stage.method: the stage keeps a deep copy of the caller's object m.
\* deepcopy(None) is None: it is assigned, and then inherit() fails on it.
method(w, n, m) ==
    IF w.raised # "none" THEN w ELSE
    LET w1 == set_transcribed(w, n, FALSE)
        obj == w1.nobj + 1
    IN IF m = NoMethod
       THEN Raise([w1 EXCEPT !.st[n].method = NoMethod], "AttributeError")
       ELSE [w1 EXCEPT !.nobj = obj, !.st[n].method = [m EXCEPT !.id = obj]]

\* a plausible slip: the hint is dropped and the guess is 0
check_free_time_no_hint(w, n) ==
    IF w.raised # "none" THEN w ELSE
    LET a0 == IF w.st[n].t0.k = "free"
              THEN LET a1 == variable(w, n, "")
                       a2 == [a1 EXCEPT !.st[n].t0 = SymVal(a1.ret)]
                   IN set_initial(a2, n, <<a2.st[n].t0.v>>, 0)
              ELSE w
    IN IF a0.st[n].T.k = "free"
       THEN LET b1 == variable(a0, n, "")
                b2 == [b1 EXCEPT !.st[n].T = SymVal(b1.ret)]
                b3 == subject_to(b2, n, <<b2.st[n].T.v, 0>>, "None", TRUE, TRUE)
            IN set_initial(b3, n, <<b3.st[n].T.v>>, 0)
       ELSE a0

\* Stage._check_free_time (with set_t0 and set_T)
check_free_time(w, n) ==
    IF w.raised # "none" THEN w ELSE
    LET \* a1, b1: the world after self.variable(); its ret is the variable
        free_t0(a1) ==
            set_initial([a1 EXCEPT !.st[n].t0 = SymVal(a1.ret)], n,
                        <<a1.ret>>, w.st[n].t0.v)
        free_T(b1) ==
            set_initial(subject_to([b1 EXCEPT !.st[n].T = SymVal(b1.ret)], n,
                                   <<b1.ret, 0>>, "None", TRUE, TRUE),
                        n, <<b1.ret>>, w.st[n].T.v)
        horizon(a0) ==
            IF w.st[n].T.k = "free" THEN free_T(variable(a0, n, "")) ELSE a0
    IN horizon(IF w.st[n].t0.k = "free"
               THEN free_t0(variable(w, n, ""))
               ELSE w)

\* the record of a stage as Stage.__init__ creates it; DirectMethod() is a
\* method object without a discretisation (N = M = 0).  A method object has N
\* control intervals, M sub-steps per interval, R root points per sub-step,
\* polynomial coefficients or none (poly), and a set bad of the points
\* <<evaluator, index>> at which its evaluator raises IndexError
DirectMethod(obj) ==
    [id |-> obj, N |-> 0, M |-> 0, R |-> 0, poly |-> FALSE, bad |-> {}]
NewStage(parent, master, t, obj, t0, T) ==
    [states |-> <<>>, qstates |-> <<>>, controls |-> <<>>, algebraics |-> <<>>,
     parameters |-> [g \in Tags |-> <<>>], variables |-> [g \in Tags |-> <<>>],
     master |-> master, parent |-> parent,
     param_vals |-> <<>>, state_der |-> <<>>, state_next |-> <<>>, alg |-> <<>>,
     constraints |-> [g \in Grids |-> <<>>], objective |-> <<0>>,
     initial |-> <<>>,
     placeholders |-> <<>>, placeholder_callbacks |-> <<>>, offsets |-> <<>>,
     inf_inert |-> <<>>, inf_der |-> <<>>,
     t |-> t, stages |-> <<>>, method |-> DirectMethod(obj),
     t0 |-> t0, T |-> T, public_T |-> 0, public_t0 |-> 0, tf |-> <<>>,
     is_transcribed |-> FALSE, ph_dirty |-> FALSE, resolved |-> <<>>]

\* a plausible slip: the parent is taken as the master
master_is_parent(w, parent) == parent

\* Stage.__init__, "parent.master if parent else None"
master_of(w, parent) ==
    IF parent # None THEN w.st[parent].master ELSE None

\* Stage.__init__; parent None gives a stage without a master
StageInit(w, parent, t0, T, cloneFlag) ==
    IF w.raised # "none" THEN w ELSE
    LET id == Len(w.st) + 1
        t == w.nsym + 1
        obj == w.nobj + 1
        mst == master_of(w, parent)
        fields ==
            [w EXCEPT !.st = Append(@, NewStage(parent, mst, t, obj, t0, T)),
                      !.nsym = t, !.nobj = obj]
        \* w2, w4: the world after a placeholder is made; its ret is the symbol
        public_T(w2) == [w2 EXCEPT !.st[id].public_T = w2.ret]
        public_t0(w4) ==
            [w4 EXCEPT !.st[id].public_t0 = w4.ret,
                       !.st[id].tf = <<w4.st[id].public_T, w4.ret>>]
        free_time(w5) ==
            [(IF cloneFlag THEN w5 ELSE check_free_time(w5, id))
               EXCEPT !.ret = id]
    IN free_time(
         public_t0(create_placeholder_expr(
           public_T(create_placeholder_expr(fields, id, <<0>>, "T")),
           id, <<0>>, "t0")))

\* the master of a tree is an Ocp, a Stage that is its own master and owns
\* the transcribed flag, initially false
OcpInit(w, t0, T) ==
    LET w1 == StageInit(w, None, t0, T, FALSE)
        id == w1.ret
    IN [w1 EXCEPT !.st[id].master = id, !.st[id].is_transcribed = FALSE]

(* ------------------------------- cloning ------------------------------- *)
RECURSIVE PutAll(_, _, _)
PutAll(m, ks, vs) ==
    IF ks = <<>> THEN m
    ELSE PutAll(Put(m, Head(ks), Head(vs)), Tail(ks), Tail(vs))

\* keyword arguments T and t0 of stage() and clone(): a time value or absent
Absent == [k |-> "absent", v |-> 0]
Default(arg, dflt) == IF arg.k = "absent" THEN dflt ELSE arg

\* the keys of the constraint registry that hold entries, in a fixed order
\* (the registry is a defaultdict; clone walks its keys twice in one order)
ConstrTypes(S) ==
    SelectSeq(GridOrder, LAMBDA g : S.constraints[g] # <<>>)
RECURSIVE FlatExprs(_, _)
FlatExprs(S, ks) ==
    IF ks = <<>> THEN <<>>
    ELSE [i \in 1..Len(S.constraints[Head(ks)]) |->
              S.constraints[Head(ks)][i].expr] \o FlatExprs(S, Tail(ks))
\* a plausible slip: r is not advanced from one grid to the next
ConsumedNone(S, ks, g) == 0

\* how many entries clone has consumed from r when it reaches grid g
RECURSIVE Consumed(_, _, _)
Consumed(S, ks, g) ==
    IF ks = <<>> \/ Head(ks) = g THEN 0
    ELSE Len(S.constraints[Head(ks)]) + Consumed(S, Tail(ks), g)

\* a plausible slip: every other placeholder is sent to one new symbol
NOtherOne(keys, i, T, t0) == 1

\* the fresh symbols clone mints: one per placeholder other than T and t0
NOther(keys, i, T, t0) == Cardinality({j \in 1..i : keys[j] \notin {T, t0}})

\* a plausible slip: the placeholders are carried over, not re-minted
SubstToSame(S, R, base) == Keys(S.placeholders)

\* Stage.clone, lines 778-787: the placeholder mapping
SubstTo(S, R, base) ==
    LET subst_from == Keys(S.placeholders)
    IN [i \in 1..Len(subst_from) |->
           IF subst_from[i] = S.public_T THEN R.public_T
           ELSE IF subst_from[i] = S.public_t0 THEN R.public_t0
           ELSE base + NOther(subst_from, i, S.public_T, S.public_t0)]

\* Stage.clone.  copy() of a list shares its symbols; copy() and deepcopy()
\* of a symbol give the same symbol (the engine's copy constructor shares
\* the node); deepcopy() of a method gives a new object.
clone(w, self, parent, cloneFlag, kw) ==
    IF w.raised # "none" THEN w ELSE
    LET \* w3: the world after ret._check_free_time()
        times(w3, S, ret) ==
            IF w3.raised # "none" THEN w3
            ELSE [w3 EXCEPT
                    !.st[ret].T = IF kw.T.k = "absent" THEN S.T ELSE @,
                    !.st[ret].t0 = IF kw.t0.k = "absent" THEN S.t0 ELSE @,
                    !.st[ret].t = S.t,
                    !.st[ret].method = [S.method EXCEPT !.id = w3.nobj + 1],
                    !.nobj = w3.nobj + 1,
                    !.st[ret].is_transcribed = FALSE,
                    !.ret = ret]
        \* w1: the world after ret = Stage(parent, clone=True, **kwargs)
        copy(w1) ==
          LET ret == w1.ret
              S == w1.st[self]
              R == w1.st[ret]
              subst_from == Keys(S.placeholders)
              subst_to == SubstTo(S, R, w1.nsym)
              nfresh == NOther(subst_from, Len(subst_from), S.public_T, S.public_t0)
              constr_types == ConstrTypes(S)
              flat == FlatExprs(S, constr_types)
              n_constr == Len(flat)
              orig == flat \o <<S.objective>> \o Keys(S.initial)
              res == [i \in 1..Len(orig) |-> substitute(orig[i], subst_from, subst_to)]
              R2 == [R EXCEPT
                       !.placeholder_callbacks =
                           PutAll(@, subst_to,
                                  [i \in 1..Len(subst_from) |->
                                      Get(S.placeholder_callbacks, subst_from[i])]),
                       !.placeholders =
                           PutAll(@, subst_to,
                                  [i \in 1..Len(subst_from) |->
                                      Get(S.placeholders, subst_from[i])]),
                       !.states = S.states,
                       !.controls = S.controls,
                       !.algebraics = S.algebraics,
                       !.parameters = S.parameters,
                       !.variables = S.variables,
                       !.offsets = S.offsets,
                       !.param_vals = S.param_vals,
                       !.state_der = S.state_der,
                       !.alg = S.alg,
                       !.state_next = S.state_next,
                       !.objective = res[n_constr + 1],
                       !.constraints =
                           [g \in Grids |->
                              [i \in 1..Len(S.constraints[g]) |->
                                 [expr |-> res[Consumed(S, constr_types, g) + i],
                                  args |-> S.constraints[g][i].args]]],
                       !.initial =
                           [i \in 1..Len(S.initial) |->
                              <<res[n_constr + 1 + i], S.initial[i][2]>>]]
          IN times(check_free_time([w1 EXCEPT !.st[ret] = R2,
                                              !.nsym = @ + nfresh], ret),
                   S, ret)
    IN copy(StageInit(w, parent, Default(kw.t0, Num(0)), Default(kw.T, Num(1)),
                      cloneFlag))

\* a plausible slip: the new stage becomes a child of the template
stage_appends_to_template(w, n, template, kw) ==
    IF w.raised # "none" THEN w ELSE
    LET p == IF template # None THEN template ELSE n
        append(w1) ==
            IF w1.raised # "none" THEN w1
            ELSE [set_transcribed([w1 EXCEPT !.st[p].stages = Append(@, w1.ret)],
                                  n, FALSE)
                    EXCEPT !.ret = w1.ret]
    IN append(IF template # None
              THEN clone(w, template, n, TRUE, kw)
              ELSE StageInit(w, n, Default(kw.t0, Num(0)),
                             Default(kw.T, Num(1)), FALSE))

\* Stage.stage; template None creates an empty child
stage(w, n, template, kw) ==
    IF w.raised # "none" THEN w ELSE
    LET \* w1: the world after the child is made; its ret is the child
        append(w1) ==
            IF w1.raised # "none" THEN w1
            ELSE [set_transcribed([w1 EXCEPT !.st[n].stages = Append(@, w1.ret)],
                                  n, FALSE)
                    EXCEPT !.ret = w1.ret]
    IN append(IF template # None
              THEN clone(w, template, n, TRUE, kw)
              ELSE StageInit(w, n, Default(kw.t0, Num(0)),
                             Default(kw.T, Num(1)), FALSE))

(* ---------------------------- transcription ---------------------------- *)
RECURSIVE transcribe_recurse(_, _)
RECURSIVE TranscribeEach(_, _)
\* the loop "for s in self._stages: s._transcribe_recurse()"
TranscribeEach(w, kids) ==
    IF kids = <<>> THEN w
    ELSE TranscribeEach(transcribe_recurse(w, Head(kids)), Tail(kids))
\* a plausible slip: the children are transcribed before the stage itself
transcribe_recurse_children_first(w, n) ==
    IF w.raised # "none" THEN w ELSE
    LET own(w1) ==
          IF w1.raised # "none" THEN w1
          ELSE IF w1.st[n].method.id # None
          THEN LogCall(IF n = w1.st[n].master
                       THEN LogCall(w1, "main_transcribe", n, 0) ELSE w1,
                       "transcribe", n, 0)
          ELSE LogCall(w1, "print", n, 0)
    IN own(TranscribeEach(w, w.st[n].stages))

\* Stage._transcribe_recurse
transcribe_recurse(w, n) ==
    IF w.raised # "none" THEN w ELSE
    LET w1 == IF w.st[n].method.id # None
              THEN LET a == IF n = w.st[n].master
                            THEN LogCall(w, "main_transcribe", n, 0)
                            ELSE w
                   IN LogCall(a, "transcribe", n, 0)
              ELSE LogCall(w, "print", n, 0)
    IN TranscribeEach(w1, w1.st[n].stages)

\* Stage._transcribe_placeholders: the table is the master's resolved map,
\* an entry records the callback that filled it and its arguments
RECURSIVE FillEach(_, _, _, _)
FillEach(w, n, m, i) ==
    IF i > Len(w.st[n].placeholders) THEN w
    ELSE LET k == w.st[n].placeholders[i][1]
             v == w.st[n].placeholders[i][2]
             cb == Get(w.st[n].placeholder_callbacks, k)
         IN IF Has(w.st[m].resolved, k)
            THEN FillEach(w, n, m, i + 1)
            ELSE FillEach(
                   LogCall([w EXCEPT !.st[m].resolved =
                                        Put(@, k, [kind |-> cb, stage |-> n,
                                                   src |-> v])],
                           "fill_placeholders", n, k),
                   n, m, i + 1)
\* a plausible slip: an entry of the table is filled again and overwritten
RECURSIVE FillAll(_, _, _, _)
FillAll(w, n, m, i) ==
    IF i > Len(w.st[n].placeholders) THEN w
    ELSE LET k == w.st[n].placeholders[i][1]
             v == w.st[n].placeholders[i][2]
             cb == Get(w.st[n].placeholder_callbacks, k)
         IN FillAll(
              LogCall([w EXCEPT !.st[m].resolved =
                                   Put(@, k, [kind |-> cb, stage |-> n,
                                              src |-> v])],
                      "fill_placeholders", n, k),
              n, m, i + 1)
transcribe_placeholders_overwrites(w, n, m) == FillAll(w, n, m, 1)

transcribe_placeholders(w, n, m) == FillEach(w, n, m, 1)

\* the method's transcribe_placeholders(stage, placeholders): it hands the
\* table to the stage's _transcribe_placeholders
method_transcribe_placeholders(w, n, m) == transcribe_placeholders(w, n, m)

RECURSIVE placeholders_transcribe_recurse(_, _, _)
RECURSIVE PlaceholdersEach(_, _, _)
PlaceholdersEach(w, kids, m) ==
    IF kids = <<>> THEN w
    ELSE PlaceholdersEach(placeholders_transcribe_recurse(w, Head(kids), m),
                          Tail(kids), m)
\* Stage._placeholders_transcribe_recurse
placeholders_transcribe_recurse(w, n, m) ==
    IF w.raised # "none" THEN w ELSE
    LET w1 == IF w.st[n].method.id # None
              THEN method_transcribe_placeholders(w, n, m)
              ELSE w
    IN PlaceholdersEach(w1, w1.st[n].stages, m)

\* the master's _transcribe: the two-phase pass, run only when the flag is
\* false, leaves the flag true
ocp_transcribe(w, m) ==
    IF w.raised # "none" THEN w ELSE
    IF is_transcribed(w, m) THEN w
    ELSE LET w1 == [w EXCEPT !.passes = @ + 1, !.st[m].resolved = <<>>]
             w2 == transcribe_recurse(w1, m)
             w3 == set_transcribed(w2, m, TRUE)
             w4 == placeholders_transcribe_recurse(w3, m, m)
         IN [w4 EXCEPT !.st[m].ph_dirty = FALSE]

\* the first statement of sample, value and sampler: self.master._transcribe()
master_transcribe(w, n) ==
    IF w.raised # "none" THEN w ELSE
    IF w.st[n].master = None THEN Raise(w, "AttributeError")
    ELSE ocp_transcribe(w, w.st[n].master)

\* a plausible slip: the query transcribes without asking the master's guard
value_always_transcribes(w, n, expr) ==
    IF w.raised # "none" THEN w ELSE
    IF w.st[n].master = None THEN Raise(w, "AttributeError")
    ELSE LET m == w.st[n].master
             w1 == ocp_transcribe(set_transcribed(w, m, FALSE), m)
         IN LogCall(w1, "eval", n, 0)

\* Stage.value
value(w, n, expr) ==
    IF w.raised # "none" THEN w ELSE
    LET w1 == master_transcribe(w, n)
    IN IF w1.raised # "none" THEN w1 ELSE LogCall(w1, "eval", n, 0)

(* ------------------------------ sampling ------------------------------- *)
\* A grid string is the sequence of its tokens: "-control" is <<"-", "control">>.
Last(s) == s[Len(s)]
Front(s) == SubSeq(s, 1, Len(s) - 1)

\* Stage._parse_grid: <<grid, include_first, include_last>>
parse_grid(grid) ==
    LET lead == grid # <<>> /\ Head(grid) = "-"
        g1 == IF lead THEN Tail(grid) ELSE grid
        trail == g1 # <<>> /\ Last(g1) = "-"
        g2 == IF trail THEN Front(g1) ELSE g1
    IN <<g2, TRUE, ~lead /\ ~trail>>

\* one call of a point evaluator of the method of stage n
eval_point(w, n, call, arg) ==
    IF w.raised # "none" THEN w ELSE
    IF <<call, arg>> \in w.st[n].method.bad
    THEN Raise(LogCall(w, call, n, arg), "IndexError")
    ELSE LogCall(w, call, n, arg)

\* a loop of evaluator calls without a handler: the first failure ends it
RECURSIVE EvalEach(_, _, _, _)
EvalEach(w, n, call, ks) ==
    IF ks = <<>> \/ w.raised # "none" THEN w
    ELSE EvalEach(eval_point(w, n, call, Head(ks)), n, call, Tail(ks))

\* "except IndexError": the failure is handled, any other goes on
Recovered(w) == IF w.raised = "IndexError" THEN [w EXCEPT !.raised = "none"] ELSE w

\* the loop of Stage._grid_control: try eval_at_control, except IndexError
RECURSIVE ControlEach(_, _, _)
ControlEach(w, n, ks) ==
    IF ks = <<>> \/ w.raised # "none" THEN w
    ELSE ControlEach(Recovered(eval_point(w, n, "eval_at_control", Head(ks))),
                     n, Tail(ks))

\* Stage._grid_control: the boundaries at which eval_at_control is called
ControlKs(N, include_first, include_last) ==
    (IF include_first THEN <<0>> ELSE <<>>)
    \o [i \in 1..(N - 1) |-> i]
    \o (IF include_last THEN <<-1>> ELSE <<>>)
\* the method's control_grid attribute: the times of the boundaries 0..N,
\* each time named by its boundary
control_grid(m) == [i \in 1..(m.N + 1) |-> i - 1]

\* what sample returns: the times, the points the columns of the series were
\* evaluated at, and the columns that hold the not-a-number fill
Series(time, res, nan) == [time |-> time, res |-> res, nan |-> nan]
Return(w, r) == IF w.raised # "none" THEN w ELSE [w EXCEPT !.ret = r]

\* Stage._grid_control
grid_control(w, n, include_first, include_last) ==
    LET m == w.st[n].method
        ks == ControlKs(m.N, include_first, include_last)
    IN Return(ControlEach(w, n, ks),
              Series(control_grid(m), ks,
                     {i \in 1..Len(ks) : <<"eval_at_control", ks[i]>> \in m.bad}))

\* a plausible slip: the final boundary is evaluated whatever include_last is
grid_integrator_always_last(w, n, include_first, include_last) ==
    IF ~include_first THEN Raise(w, "AssertionError")
    ELSE LET m == w.st[n].method
             steps == [i \in 1..(m.N * m.M) |-> i - 1]
         IN Return(eval_point(EvalEach(w, n, "eval_at_integrator", steps), n,
                              "eval_at_control", -1),
                   Series([k \in 1..m.N |-> k - 1], steps \o <<-1>>, {}))

\* Stage._grid_integrator: sub-step (k, l) is logged as k * M + l; the time
\* holds integrator_grid[k] of every interval k
grid_integrator(w, n, include_first, include_last) ==
    IF ~include_first THEN Raise(w, "AssertionError")
    ELSE LET m == w.st[n].method
             steps == [i \in 1..(m.N * m.M) |-> i - 1]
             last_of(w1) ==
                 IF include_last THEN eval_point(w1, n, "eval_at_control", -1)
                 ELSE w1
         IN Return(last_of(EvalEach(w, n, "eval_at_integrator", steps)),
                   Series([k \in 1..m.N |-> k - 1],
                          steps \o (IF include_last THEN <<-1>> ELSE <<>>), {}))

\* Stage._grid_integrator_roots: root j of sub-step (k, l) is logged as
\* (k * M + l) * R + j
grid_integrator_roots(w, n, include_first, include_last) ==
    IF ~include_first \/ ~include_last THEN Raise(w, "AssertionError")
    ELSE LET m == w.st[n].method
             roots == [i \in 1..(m.N * m.M * m.R) |-> i - 1]
         IN Return(EvalEach(w, n, "eval_at_integrator_root", roots),
                   Series(roots, roots, {}))

\* a plausible slip: the end point of the last sub-step is never appended
grid_intg_fine_open(w, n, refine, include_first, include_last) ==
    IF ~include_first \/ ~include_last THEN Raise(w, "AssertionError")
    ELSE IF ~w.st[n].method.poly THEN Raise(w, "No polynomal coefficients")
    ELSE LET m == w.st[n].method
             steps == [i \in 1..(m.N * m.M) |-> i - 1]
         IN Return(EvalEach(w, n, "eval_at_integrator", steps),
                   Series([p \in 1..(m.N * m.M * refine) |-> p - 1],
                          [p \in 1..(m.N * m.M * refine) |->
                             (p - 1) \div refine], {}))

\* Stage._grid_intg_fine.  Times are counted in units in which a control
\* interval lasts M * refine, so that time[k] is control_grid[k] * M * refine;
\* every sub-step is evaluated in one call for its refine points, and the end
\* point in one more call on the last sub-step
grid_intg_fine(w, n, refine, include_first, include_last) ==
    IF ~include_first \/ ~include_last THEN Raise(w, "AssertionError")
    ELSE IF ~w.st[n].method.poly THEN Raise(w, "No polynomal coefficients")
    ELSE LET m == w.st[n].method
             time == [k \in 1..(m.N + 1) |-> control_grid(m)[k] * m.M * refine]
             dt(k) == (time[k + 2] - time[k + 1]) \div m.M
             steps == [i \in 1..(m.N * m.M) |-> i - 1]
             \* column p of the loop: sub-step (k, l), point i of tlocal[:-1]
             t(p) == LET k == (p \div refine) \div m.M
                         l == (p \div refine) % m.M
                         i == p % refine
                     IN time[k + 1] + l * dt(k) + i * (dt(k) \div refine)
             total_time == [p \in 1..(m.N * m.M * refine) |-> t(p - 1)]
                           \o <<time[m.N + 1]>>
             columns == [p \in 1..(m.N * m.M * refine) |-> (p - 1) \div refine]
                        \o <<m.N * m.M - 1>>
             end_point(w1) ==
                 eval_point(w1, n, "eval_at_integrator", m.N * m.M - 1)
         IN Return(end_point(EvalEach(w, n, "eval_at_integrator", steps)),
                   Series(total_time, columns, {}))

\* a plausible slip: a name that is not known is sampled on the control grid
sample_lenient(w, n, expr, grid, refine) ==
    IF w.raised # "none" THEN w ELSE
    LET pg == parse_grid(grid)
        dispatch(w1) ==
          IF w1.raised # "none" THEN w1
          ELSE IF w1.st[n].method.N = 0 THEN Raise(w1, "AttributeError")
          ELSE grid_control(w1, n, pg[2], pg[3])
    IN dispatch(master_transcribe(w, n))

\* Stage.sample; refine is None when the keyword is not given.  A method
\* without a discretisation has no N to read; a grid function that gets a
\* keyword it does not take, or include_last twice, fails with TypeError
sample(w, n, expr, grid, refine) ==
    IF w.raised # "none" THEN w ELSE
    LET pg == parse_grid(grid)
        dispatch(w1) ==
          IF w1.raised # "none" THEN w1
          ELSE IF pg[1] = <<"control">>
          THEN IF refine # None THEN Raise(w1, "TypeError")
               ELSE IF w1.st[n].method.N = 0 THEN Raise(w1, "AttributeError")
               ELSE grid_control(w1, n, pg[2], pg[3])
          ELSE IF pg[1] = <<"control", "-">> THEN Raise(w1, "TypeError")
          ELSE IF pg[1] = <<"integrator">>
          THEN IF w1.st[n].method.N = 0 THEN Raise(w1, "AttributeError")
               ELSE IF refine # None
               THEN grid_intg_fine(w1, n, refine, pg[2], pg[3])
               ELSE grid_integrator(w1, n, pg[2], pg[3])
          ELSE IF pg[1] = <<"integrator_roots">>
          THEN IF refine # None THEN Raise(w1, "TypeError")
               ELSE IF w1.st[n].method.N = 0 THEN Raise(w1, "AttributeError")
               ELSE grid_integrator_roots(w1, n, pg[2], pg[3])
          ELSE Raise(w1, "Unknown grid option")
    IN dispatch(master_transcribe(w, n))

\* Stage.sampler, up to the construction of the evaluator
sampler(w, n, expr) ==
    IF w.raised # "none" THEN w ELSE
    LET w1 == master_transcribe(w, n)
    IN IF w1.raised # "none" THEN w1 ELSE LogCall(w1, "sampler", n, 0)

(* ------------------------------- inputs -------------------------------- *)
Nodes == 1..Len(st)
NoKw == [T |-> Absent, t0 |-> Absent]

\* every symbol stage n knows
Atoms(n) ==
    LET s == st[n]
    IN Range(s.states) \cup Range(s.qstates) \cup Range(s.controls)
       \cup Range(s.algebraics) \cup {s.t}
       \cup UNION {Range(s.parameters[g]) : g \in Tags}
       \cup UNION {Range(s.variables[g]) : g \in Tags}
       \cup Range(Keys(s.placeholders)) \cup Range(Keys(s.offsets))
       \cup Range(Keys(s.inf_der))

\* the expressions offered to a call on stage n
ExprIn(n) ==
    CASE run.spec = "tree" -> {<<0>>}
      [] run.spec = "dyn" -> {<<0>>, <<st[n].t>>}
      [] run.spec = "con" -> {<<0>>} \cup {<<a>> : a \in Atoms(n)}
      [] OTHER ->
           LET s == st[n]
           IN {<<s.t>>, <<s.public_T>>}
              \cup (IF s.states = <<>> THEN {} ELSE {<<s.states[1]>>})
              \cup (IF Len(s.placeholders) > 2
                    THEN {<<s.placeholders[Len(s.placeholders)][1]>>}
                    ELSE {})
TagIn == IF run.spec = "con" THEN Tags ELSE {""}
GridIn ==
    CASE run.spec = "con" -> Grids \cup {"None", "bogus"}
      [] run.spec \in {"clone", "tpl"} -> {"None"}
      [] OTHER -> {"None", "control"}
\* <<include_first, include_last>>
FlagIn ==
    CASE run.spec = "con" -> BOOLEAN \X BOOLEAN
      [] run.spec = "clone" -> {<<TRUE, TRUE>>, <<FALSE, TRUE>>}
      [] OTHER -> {<<TRUE, TRUE>>}
ValIn == IF run.spec = "clone" THEN {MaxVal} ELSE 1..MaxVal
\* keyword arguments: none, a fixed or a free horizon, a free start time, both
KwFree == [T |-> FreeTime(MaxVal), t0 |-> FreeTime(1)]
KwAll ==
    {NoKw, KwFree, [T |-> Num(1), t0 |-> Absent],
     [T |-> FreeTime(MaxVal), t0 |-> Absent], [T |-> Absent, t0 |-> FreeTime(1)]}
KwIn ==
    IF run.spec = "clone"
    THEN KwAll \ {[T |-> Absent, t0 |-> FreeTime(1)]}
    ELSE IF run.spec = "visit" THEN {NoKw}
    ELSE {NoKw, [T |-> FreeTime(1), t0 |-> Absent]}
StageLimit ==
    CASE run.spec = "clone" -> MaxStagesClone
      [] run.spec = "visit" -> MaxStagesVisit
      [] OTHER -> MaxStages
\* the method objects a caller makes
Method(N, M, R, poly, bad) ==
    [id |-> None, N |-> N, M |-> M, R |-> R, poly |-> poly, bad |-> bad]
MethodsIn ==
    IF run.spec = "sample"
    THEN {Method(N, M, 1, TRUE, {}) : N \in 1..MaxVal, M \in 1..MaxVal}
         \cup {Method(MaxVal, MaxVal, MaxVal, FALSE, {})}
         \cup {Method(MaxVal, 1, 1, TRUE, {<<c, 0>>}) :
                 c \in {"eval_at_control", "eval_at_integrator",
                        "eval_at_integrator_root"}}
         \cup {Method(MaxVal, 1, 1, TRUE, {<<"eval_at_control", -1>>})}
    ELSE {Method(N, 1, 1, TRUE, {}) : N \in 1..MaxVal}
\* the refine keyword of sample: not given, or a number of points
RefineIn == IF run.spec = "sample" THEN {None} \cup 1..MaxVal ELSE {None}
GridStrings ==
    IF run.spec = "tree"
    THEN {<<"control">>, <<"bogus">>}
    ELSE {<<"control">>, <<"-", "control">>, <<"control", "-">>,
          <<"-", "control", "-">>, <<"integrator">>, <<"bogus">>,
          <<"integrator", "-">>, <<"integrator_roots">>,
          <<"-", "integrator_roots">>, <<"control", "-", "-">>}

(* ------------------------------- actions ------------------------------- *)
\* the world after the call becomes the state; last records the call
Commit(w, op, n, a, e, g, kw) ==
    /\ st' = w.st
    /\ nsym' = w.nsym
    /\ nobj' = w.nobj
    /\ passes' = w.passes
    /\ ncalls' = ncalls + 1
    /\ last' = [op |-> op, node |-> n, a |-> a, e |-> e, g |-> g, kw |-> kw,
                raised |-> w.raised,
                ret |-> IF w.raised = "none" THEN w.ret ELSE 0,
                log |-> w.log,
                flag0 |-> is_transcribed(World, n),
                prev |-> [op |-> last.op, node |-> last.node, a |-> last.a,
                          raised |-> last.raised]]
    /\ UNCHANGED run

StateCall ==
    /\ ncalls < run.budget
    /\ \E n \in Nodes, quad \in BOOLEAN :
         Commit(state(World, n, quad), "state", n, 0, <<>>,
                IF quad THEN "quad" ELSE "", NoKw)

AlgebraicCall ==
    /\ ncalls < run.budget
    /\ \E n \in Nodes :
         Commit(algebraic(World, n), "algebraic", n, 0, <<>>, "", NoKw)

VariableCall ==
    /\ ncalls < run.budget
    /\ \E n \in Nodes, grid \in TagIn :
         Commit(variable(World, n, grid), "variable", n, 0, <<>>, grid, NoKw)

ParameterCall ==
    /\ ncalls < run.budget
    /\ \E n \in Nodes, grid \in TagIn :
         Commit(parameter(World, n, grid), "parameter", n, 0, <<>>, grid, NoKw)

ControlCall ==
    /\ ncalls < run.budget
    /\ \E n \in Nodes, order \in 0..run.order :
         Commit(control(World, n, order), "control", n, order, <<>>, "", NoKw)

SetValueCall ==
    /\ ncalls < run.budget
    /\ \E n \in Nodes, val \in 1..MaxVal :
         \E p \in UNION {Range(st[n].parameters[g]) : g \in Tags} :
           Commit(set_value(World, n, p, val), "set_value", n, p, <<>>, "",
                  NoKw)

SetInitialCall ==
    /\ ncalls < run.budget
    /\ \E n \in Nodes, val \in ValIn :
         \E var \in ExprIn(n) :
           Commit(set_initial(World, n, var, val), "set_initial", n, val,
                  var, "", NoKw)

SetDerCall ==
    /\ ncalls < run.budget
    /\ \E n \in Nodes :
         \E x \in Range(st[n].states) \cup Range(st[n].qstates),
            der \in ExprIn(n) :
           Commit(set_der(World, n, x, der), "set_der", n, x, der, "", NoKw)

SetNextCall ==
    /\ ncalls < run.budget
    /\ \E n \in Nodes :
         \E x \in Range(st[n].states) \cup Range(st[n].qstates),
            nxt \in ExprIn(n) :
           Commit(set_next(World, n, x, nxt), "set_next", n, x, nxt, "", NoKw)

IntegralCall ==
    /\ ncalls < run.budget
    /\ \E n \in Nodes, grid \in {"inf", "control"} :
         \E expr \in ExprIn(n) :
           Commit(integral(World, n, expr, grid), "integral", n, 0, expr, grid,
                  NoKw)

SumCall ==
    /\ ncalls < run.budget
    /\ \E n \in Nodes, grid \in {"inf", "control"} :
         \E expr \in ExprIn(n) :
           Commit(sum_(World, n, expr, grid), "sum", n, 0, expr, grid, NoKw)

AtCall ==
    /\ ncalls < run.budget
    /\ \E n \in Nodes :
         \E expr \in ExprIn(n) :
           \/ Commit(at_t0(World, n, expr), "at_t0", n, 0, expr, "", NoKw)
           \/ Commit(at_tf(World, n, expr), "at_tf", n, 0, expr, "", NoKw)

OffsetCall ==
    /\ ncalls < run.budget
    /\ \E n \in Nodes, halves \in {-3, -2, 2, 3, 4} :
         \E expr \in ExprIn(n) :
           Commit(offset(World, n, expr, halves), "offset", n, halves, expr, "",
                  NoKw)

InfDerCall ==
    /\ ncalls < run.budget
    /\ \E n \in Nodes :
         \E expr \in ExprIn(n) :
           Commit(inf_der(World, n, expr), "inf_der", n, 0, expr, "", NoKw)

SubjectToCall ==
    /\ ncalls < run.budget
    /\ \E n \in Nodes, grid \in GridIn, incl \in FlagIn :
         \E constr \in ExprIn(n) :
           Commit(subject_to(World, n, constr, grid, incl[1], incl[2]),
                  "subject_to", n,
                  (IF incl[1] THEN 1 ELSE 0) + (IF incl[2] THEN 2 ELSE 0),
                  constr, grid, NoKw)

AddObjectiveCall ==
    /\ ncalls < run.budget
    /\ \E n \in Nodes :
         \E term \in ExprIn(n) :
           Commit(add_objective(World, n, term), "add_objective", n, 0, term,
                  "", NoKw)

\* the caller constructs a method object m and hands it to the stage
MethodCall ==
    /\ ncalls < run.budget
    /\ \E n \in Nodes, made \in MethodsIn :
         LET m == [made EXCEPT !.id = nobj + 1]
         IN Commit(method([World EXCEPT !.nobj = m.id], n, m), "method", n,
                   m.id, <<>>, "", NoKw)

\* the caller hands None to method()
MethodNoneCall ==
    /\ ncalls < run.budget
    /\ \E n \in Nodes :
         Commit(method(World, n, NoMethod), "method", n, None, <<>>, "", NoKw)

StageCall ==
    /\ ncalls < run.budget
    /\ Len(st) < StageLimit
    /\ \E n \in Nodes, template \in {None} \cup Nodes, kw \in KwIn :
         Commit(stage(World, n, template, kw), "stage", n, template, <<>>, "",
                kw)

\* clone called directly, under a parent or under none
CloneCall ==
    /\ ncalls < run.budget
    /\ Len(st) < StageLimit
    /\ \E n \in Nodes, parent \in {None} \cup Nodes, kw \in KwIn :
         Commit(clone(World, n, parent, FALSE, kw), "clone", n, parent, <<>>,
                "", kw)

\* _grid_integrator called directly on a stage that has a discretisation
GridIntegratorCall ==
    /\ ncalls < run.budget
    /\ \E n \in Nodes, include_first \in BOOLEAN, include_last \in BOOLEAN :
         /\ st[n].method.N >= 1
         /\ Commit(grid_integrator(World, n, include_first, include_last),
                   "_grid_integrator", n, 0, <<include_first, include_last>>,
                   "", NoKw)

SampleCall ==
    /\ ncalls < run.budget
    /\ \E n \in Nodes, grid \in GridStrings, refine \in RefineIn :
         Commit(sample(World, n, <<0>>, grid, refine), "sample", n, refine,
                grid, "", NoKw)

ValueCall ==
    /\ ncalls < run.budget
    /\ \E n \in Nodes :
         Commit(value(World, n, <<0>>), "value", n, 0, <<0>>, "", NoKw)

SamplerCall ==
    /\ ncalls < run.budget
    /\ \E n \in Nodes :
         Commit(sampler(World, n, <<0>>), "sampler", n, 0, <<0>>, "", NoKw)

\* the transcription pass started on stage n
TranscribeRecurseCall ==
    /\ ncalls < run.budget
    /\ \E n \in Nodes :
         Commit(transcribe_recurse(World, n), "_transcribe_recurse", n, 0,
                <<>>, "", NoKw)

\* an entry of the result table that was there before the pass
Given == [kind |-> "given", stage |-> 0, src |-> <<>>]
\* the result tables handed to a pass: empty, or holding one placeholder
TablesIn ==
    {<<>>} \cup {<<<<k, Given>>>> :
                  k \in UNION {Range(Keys(st[n].placeholders)) : n \in Nodes}}

\* the placeholder-resolution pass started on stage n with a result table;
\* the table is kept in the resolved field of stage 1
PlaceholdersPassCall ==
    /\ ncalls < run.budget
    /\ \E n \in Nodes, table \in TablesIn :
         Commit(placeholders_transcribe_recurse(
                  [World EXCEPT !.st[1].resolved = table], n, 1),
                "_placeholders_transcribe_recurse", n, 0, Keys(table), "",
                NoKw)

(* --------------------------- specifications ---------------------------- *)
Empty == [st |-> <<>>, nsym |-> 0, nobj |-> 0, passes |-> 0,
          raised |-> "none", ret |-> 0, log |-> <<>>]

\* the state after the root of the tree is constructed: an Ocp (its own
\* master) or a bare Stage
Construct(w, op, kw, spec, budget, order) ==
    /\ st = w.st
    /\ nsym = w.nsym
    /\ nobj = w.nobj
    /\ passes = 0
    /\ ncalls = 0
    /\ last = [op |-> op, node |-> 1, a |-> 0, e |-> <<>>, g |-> "", kw |-> kw,
               raised |-> "none", ret |-> 1, log |-> <<>>, flag0 |-> FALSE,
               prev |-> [op |-> "", node |-> 0, a |-> 0, raised |-> "none"]]
    /\ run = [spec |-> spec, budget |-> budget, order |-> order]

Roots(kws, spec, budget, order) ==
    \E kw \in kws :
      \/ Construct(OcpInit(Empty, Default(kw.t0, Num(0)), Default(kw.T, Num(1))),
                   "Ocp", kw, spec, budget, order)
      \/ Construct(StageInit(Empty, None, Default(kw.t0, Num(0)),
                             Default(kw.T, Num(1)), FALSE),
                   "Stage", kw, spec, budget, order)

\* the stage tree: formulation calls and queries on any node
Init == Roots({NoKw}, "tree", MaxCalls, 1)
Next ==
    \/ StateCall \/ AlgebraicCall \/ VariableCall \/ ParameterCall
    \/ ControlCall \/ SetDerCall \/ SetNextCall \/ SubjectToCall
    \/ AddObjectiveCall \/ MethodCall \/ StageCall
    \/ SetValueCall \/ SetInitialCall
    \/ SampleCall \/ ValueCall \/ SamplerCall
Spec == Init /\ [][Next]_vars

(* ------------------------ the transcribed flag ------------------------- *)
MutatingOps ==
    {"state", "control", "algebraic", "parameter", "variable", "set_der",
     "set_next", "subject_to", "add_objective", "method", "stage"}
QueryOps == {"sample", "value", "sampler"}
\* the flag as read through node n
Flag(n) == is_transcribed(World, n)
\* a call was made in this step
Called == ncalls' = ncalls + 1

\* C1: after any mutating call (state, control, algebraic, parameter,
\* variable, set_der, set_next, subject_to, add_objective, method, stage with
\* or without a template) on any node, whether it returned or raised, the
\* transcribed flag read through every node of the tree is false.
C1_MutationClearsFlag ==
    last.op \in MutatingOps => \A n \in Nodes : ~Flag(n)

\* a descendant's method() call found the flag true and left it false
C1_Witness ==
    /\ last.op = "method"
    /\ last.node # 1
    /\ last.flag0
    /\ \A n \in Nodes : ~Flag(n)

\* C2: on a tree with a master, a query (sample, value, sampler) made with
\* the flag false runs the transcription pass exactly once and leaves the flag
\* true; a query made with the flag true runs no pass and leaves it true.  So
\* the first query after a mutating call runs one pass and a second query in
\* a row runs none.
C2_TranscribeAtMostOnce ==
    [][(Called /\ last'.op \in QueryOps /\ st[last'.node].master # None)
        => /\ passes' = passes + (IF Flag(last'.node) THEN 0 ELSE 1)
           /\ \A n \in Nodes : Flag(n)'
           /\ (last.op \in MutatingOps => passes' = passes + 1)
           /\ (last.op \in QueryOps => passes' = passes)]_vars

\* two queries in a row after a mutation: one pass in all, flag true
C2_Witness ==
    /\ last.op \in QueryOps
    /\ last.prev.op \in QueryOps
    /\ last.node # last.prev.node
    /\ st[last.node].master # None
    /\ passes = 1
    /\ Flag(last.node)

\* C5 as claimed: set_value and set_initial, called with the flag false on a
\* tree that has a master, leave the flag true (they transcribe first).
C5_Original ==
    (/\ last.op \in {"set_value", "set_initial"}
     /\ st[last.node].master # None
     /\ ~last.flag0)
    => Flag(last.node)

\* C5 amended: set_value and set_initial read the flag and never run the
\* transcription pass nor change the flag.  With the flag false (or without a
\* master) set_value only stores the value in the stage's parameter values
\* and set_initial only stores the guess in the initial-guess table; with
\* the flag true set_value pushes the value into the transcribed model
\* without storing it, and set_initial stores the guess and pushes the table.
C5_NoTranscription ==
    [][(Called /\ last'.op \in {"set_value", "set_initial"})
        => LET n == last'.node
               calls == [i \in 1..Len(last'.log) |-> last'.log[i].call]
           IN /\ passes' = passes
              /\ \A k \in Nodes : Flag(k)' = Flag(k)
              /\ last'.raised = "none"
              /\ last'.op = "set_value" =>
                   IF Flag(n)
                   THEN calls = <<"set_value">>
                        /\ st'[n].param_vals = st[n].param_vals
                   ELSE calls = <<>>
                        /\ Has(st'[n].param_vals, last'.a)
              /\ last'.op = "set_initial" =>
                   /\ Has(st'[n].initial, last'.e)
                   /\ Get(st'[n].initial, last'.e) = last'.a
                   /\ calls = IF Flag(n) THEN <<"set_initial">> ELSE <<>>]_vars

\* set_value on an untranscribed tree with a master: stored, flag still false
C5_Witness ==
    /\ last.op = "set_value"
    /\ st[last.node].master # None
    /\ ~last.flag0
    /\ ~Flag(last.node)
    /\ Has(st[last.node].param_vals, last.a)
    /\ last.log = <<>>

(* ----------------------------- the dynamics ---------------------------- *)
\* states, controls of any order, derivative and next-state rules, integrals
\* and clones
InitDyn == Roots({NoKw}, "dyn", MaxCallsDyn, 2)
NextDyn ==
    \/ StateCall \/ ControlCall \/ SetDerCall \/ SetNextCall
    \/ IntegralCall \/ CloneCall
SpecDyn == InitDyn /\ [][NextDyn]_vars

\* C3: on every stage, after any sequence of set_der, set_next, integral,
\* control and clone calls, failed calls included, the derivative map and
\* the next-state map are never both non-empty.
C3_DerNextExclusive ==
    \A n \in Nodes : ~(st[n].state_der # <<>> /\ st[n].state_next # <<>>)

\* how many entries of map m are for key k
Entries(m, k) == Cardinality({i \in 1..Len(m) : m[i][1] = k})

\* C4: on one stage, a set_next after a set_der that succeeded fails, and a
\* set_der after a set_next fails; a set_der repeated on the same state
\* right after one that succeeded succeeds and leaves exactly one entry for
\* the state, holding the later expression; likewise for set_next.
C4_SetterExclusionAndOverwrite ==
    [][(Called /\ last'.node = last.node)
        => LET n == last'.node
               x == last'.a
           IN /\ (last.op = "set_der" /\ last.raised = "none"
                  /\ last'.op = "set_next") => last'.raised # "none"
              /\ (last.op = "set_next" /\ last'.op = "set_der")
                   => last'.raised # "none"
              /\ (last.op = "set_der" /\ last.raised = "none"
                  /\ last'.op = "set_der" /\ last.a = x)
                   => /\ last'.raised = "none"
                      /\ Entries(st'[n].state_der, x) = 1
                      /\ Get(st'[n].state_der, x) = last'.e
                      /\ Len(st'[n].state_der) = Len(st[n].state_der)
              /\ (last.op = "set_next" /\ last.raised = "none"
                  /\ last'.op = "set_next" /\ last.a = x)
                   => /\ last'.raised = "none"
                      /\ Entries(st'[n].state_next, x) = 1
                      /\ Get(st'[n].state_next, x) = last'.e
                      /\ Len(st'[n].state_next) = Len(st[n].state_next)]_vars

\* set_next fails right after a set_der that succeeded
C4_Witness ==
    /\ last.op = "set_next"
    /\ last.raised = "AssertionError"
    /\ last.prev.op = "set_der"
    /\ last.prev.raised = "none"
    /\ last.prev.node = last.node

(* ------------------------ the constraint registry ---------------------- *)
\* one stage: declarations of every kind, placeholders, derivative
\* overrides, and subject_to with every grid and option
InitCon == Roots({NoKw}, "con", MaxCallsCon, 0)
NextCon ==
    \/ StateCall \/ ControlCall \/ AlgebraicCall \/ VariableCall
    \/ ParameterCall \/ AtCall \/ InfDerCall \/ SubjectToCall
SpecCon == InitCon /\ [][NextCon]_vars

\* what the claims call a signal: an expression that depends on a state, a
\* control, an algebraic, the time symbol or a 'control'- or 'states'-tagged
\* free variable of the stage
ListedSignal(s, expr) ==
    \E i \in 1..Len(expr) :
      \/ \E j \in 1..Len(s.states) : s.states[j] = expr[i]
      \/ \E j \in 1..Len(s.controls) : s.controls[j] = expr[i]
      \/ \E j \in 1..Len(s.algebraics) : s.algebraics[j] = expr[i]
      \/ expr[i] = s.t
      \/ \E g \in {"control", "states"} :
           \E j \in 1..Len(s.variables[g]) : s.variables[g][j] = expr[i]
\* ... or on a derivative-override symbol made by inf_der
OverrideSignal(s, expr) ==
    \E i \in 1..Len(expr) :
      \E j \in 1..Len(s.inf_der) : s.inf_der[j][1] = expr[i]

IncludeFirst(a) == a % 2 = 1
IncludeLast(a) == a \div 2 = 1
\* exactly one entry for the call recorded in c is appended to grid g of
\* stage n, and no other grid's list changes
AppendedUnder(n, g, c) ==
    /\ st'[n].constraints[g] =
         Append(st[n].constraints[g],
                [expr |-> c.e,
                 args |-> [grid |-> g, include_first |-> IncludeFirst(c.a),
                           include_last |-> IncludeLast(c.a)]])
    /\ \A h \in Grids \ {g} : st'[n].constraints[h] = st[n].constraints[h]

\* C6 as claimed: without a grid, the constraint goes under 'control' when
\* the expression depends on a state, control, algebraic, the time symbol or
\* a 'control'/'states' variable, and under 'point' otherwise.
C6_Original ==
    [][(Called /\ last'.op = "subject_to" /\ last'.g = "None")
        => /\ last'.raised = "none"
           /\ AppendedUnder(last'.node,
                            IF ListedSignal(st[last'.node], last'.e)
                            THEN "control" ELSE "point",
                            last')]_vars

\* C6 amended: the expressions that go under 'control' are also those that
\* depend on a derivative-override symbol of the stage (inf_der); the rest as
\* claimed: one entry appended at the end of that grid's list, its grid
\* option equal to the key, no other list changed.
C6_InferredGrid ==
    [][(Called /\ last'.op = "subject_to" /\ last'.g = "None")
        => /\ last'.raised = "none"
           /\ AppendedUnder(last'.node,
                            IF \/ ListedSignal(st[last'.node], last'.e)
                               \/ OverrideSignal(st[last'.node], last'.e)
                            THEN "control" ELSE "point",
                            last')]_vars

\* a signal expression was stored under the inferred grid 'control' with
\* both inclusion options off
C6_Witness ==
    /\ last.op = "subject_to"
    /\ last.g = "None"
    /\ last.raised = "none"
    /\ last.a = 0
    /\ st[last.node].constraints["control"] # <<>>
    /\ Last(st[last.node].constraints["control"]).expr = last.e
    /\ last.e = <<st[last.node].t>>

InitClone == Roots({NoKw, KwFree}, "clone", MaxCallsClone, 0)
NextClone ==
    \/ StateCall \/ AtCall \/ SubjectToCall \/ AddObjectiveCall
    \/ SetInitialCall \/ StageCall \/ CloneCall
SpecClone == InitClone /\ [][NextClone]_vars

\* the call recorded in last constructed a stage with the constructor
\* (the root, or stage() without a template), and the stage it made
Constructed ==
    /\ last.raised = "none"
    /\ \/ last.op \in {"Ocp", "Stage"}
       \/ last.op = "stage" /\ last.a = None
\* the call recorded in last cloned a stage: the original and the clone
Cloned ==
    /\ last.raised = "none"
    /\ \/ last.op = "clone"
       \/ last.op = "stage" /\ last.a # None
Original == IF last.op = "clone" THEN last.node ELSE last.a
IsFree(tv) == tv.k = "free"
AllConstraints(s) == FlatExprs(s, GridOrder)

\* C8: right after construction, a stage given a free horizon has a
\* variable of tag '' as its horizon, exactly one constraint, under 'point',
\* which is horizon >= 0, and the hint as the initial guess of the horizon; a
\* free start time gives the variable and the guess and no constraint; the
\* stage has no other variable, constraint or guess.
C8_FreeTimeAtConstruction ==
    Constructed =>
      LET s == st[last.ret]
          fT == IsFree(last.kw.T)
          f0 == IsFree(last.kw.t0)
      IN /\ Len(s.variables[""]) = (IF fT THEN 1 ELSE 0) + (IF f0 THEN 1 ELSE 0)
         /\ s.variables["control"] = <<>> /\ s.variables["states"] = <<>>
         /\ Len(s.initial) = Len(s.variables[""])
         /\ \A g \in Grids \ {"point"} : s.constraints[g] = <<>>
         /\ Len(s.constraints["point"]) = (IF fT THEN 1 ELSE 0)
         /\ fT => /\ s.T.k = "sym"
                  /\ s.T.v \in Range(s.variables[""])
                  /\ s.constraints["point"][1] =
                       [expr |-> <<s.T.v, 0>>,
                        args |-> [grid |-> "point", include_first |-> TRUE,
                                  include_last |-> TRUE]]
                  /\ Has(s.initial, <<s.T.v>>)
                  /\ Get(s.initial, <<s.T.v>>) = last.kw.T.v
         /\ f0 => /\ s.t0.k = "sym"
                  /\ s.t0.v \in Range(s.variables[""])
                  /\ Has(s.initial, <<s.t0.v>>)
                  /\ Get(s.initial, <<s.t0.v>>) = last.kw.t0.v
         /\ (fT /\ f0) => s.T.v # s.t0.v
         /\ ~fT => s.T = Default(last.kw.T, Num(1))
         /\ ~f0 => s.t0 = Default(last.kw.t0, Num(0))

\* a child made by stage() with a free horizon and a free start time
C8_Witness ==
    /\ Constructed
    /\ last.op = "stage"
    /\ IsFree(last.kw.T) /\ IsFree(last.kw.t0)
    /\ st[last.ret].T.k = "sym"
    /\ Len(st[last.ret].constraints["point"]) = 1
    /\ Len(st[last.ret].initial) = 2

\* the symbols a stage declares, and those its expressions mention
Declared(s) ==
    Range(s.states) \cup Range(s.qstates) \cup Range(s.controls)
    \cup Range(s.algebraics)
    \cup UNION {Range(s.parameters[g]) : g \in Tags}
    \cup UNION {Range(s.variables[g]) : g \in Tags}
    \cup (IF s.T.k = "sym" THEN {s.T.v} ELSE {})
    \cup (IF s.t0.k = "sym" THEN {s.t0.v} ELSE {})
Mentioned(s) ==
    UNION {Range(AllConstraints(s)[i]) : i \in 1..Len(AllConstraints(s))}
    \cup Range(s.objective)

Back(expr) ==
    substitute(expr, Keys(st[last.ret].placeholders),
               Keys(st[Original].placeholders))
\* list c begins with the renamed entries of list o, in order, same options
RenamedPrefix(c, o) ==
    /\ Len(c) >= Len(o)
    /\ \A i \in 1..Len(o) : Back(c[i].expr) = o[i].expr /\ c[i].args = o[i].args

\* C10 as claimed: the clone has, for every grid, as many constraints as
\* the original, in the same order with the same options, and mapping the
\* clone's symbols back gives the original's constraints, objective and
\* initial-guess keys.
C10_Original ==
    Cloned =>
      LET c == st[last.ret]
          o == st[Original]
      IN /\ \A g \in Grids :
              /\ Len(c.constraints[g]) = Len(o.constraints[g])
              /\ RenamedPrefix(c.constraints[g], o.constraints[g])
         /\ Back(c.objective) = o.objective
         /\ Len(c.initial) = Len(o.initial)
         /\ \A i \in 1..Len(o.initial) : Back(c.initial[i][1]) = o.initial[i][1]

\* what free-time re-derivation adds to a clone: only stage(template, ...)
\* given a free T or t0 adds anything
AddedConstraints == IF last.op = "stage" /\ IsFree(last.kw.T) THEN 1 ELSE 0
AddedGuesses ==
    IF last.op = "stage"
    THEN (IF IsFree(last.kw.T) THEN 1 ELSE 0)
         + (IF IsFree(last.kw.t0) THEN 1 ELSE 0)
    ELSE 0

\* C10 amended: the clone's constraint lists, objective and initial-guess
\* table are the original's under one renaming (same order, same options,
\* same guesses), followed, when stage(template, ...) is given a free T or
\* t0, by the entries of the free-time re-derivation: one more 'point'
\* constraint for a free T and one more guess per free time.
C10_RoundTrip ==
    Cloned =>
      LET c == st[last.ret]
          o == st[Original]
      IN /\ \A g \in Grids :
              /\ RenamedPrefix(c.constraints[g], o.constraints[g])
              /\ Len(c.constraints[g]) =
                   Len(o.constraints[g])
                   + (IF g = "point" THEN AddedConstraints ELSE 0)
         /\ Back(c.objective) = o.objective
         /\ Len(c.initial) = Len(o.initial) + AddedGuesses
         /\ \A i \in 1..Len(o.initial) :
              /\ Back(c.initial[i][1]) = o.initial[i][1]
              /\ c.initial[i][2] = o.initial[i][2]

\* a clone of a stage with constraints under two grids, one of them on a
\* placeholder
C10_Witness ==
    /\ Cloned
    /\ st[Original].constraints["control"] # <<>>
    /\ st[Original].constraints["point"] # <<>>
    /\ st[Original].constraints["point"][1].expr = <<st[Original].public_T>>
    /\ st[last.ret].constraints["point"][1].expr = <<st[last.ret].public_T>>

(* ------------------------ the placeholder mapping ----------------------- *)
\* the placeholder symbols of stage s
Placeholders(s) == Range(Keys(s.placeholders))

\* C11: in clone the original's placeholders are mapped one-to-one onto the
\* clone's placeholders: T to T, t0 to t0, every other placeholder to a
\* symbol of its own that was not minted before the call and is in no
\* registry before it; each image has the resolution kind of its preimage;
\* the clone's registry has as many placeholders as the original's and none
\* of the original's.
C11_PlaceholderBijection ==
    [][(Called /\ Cloned')
        => LET o == st[Original']
               c == st'[last'.ret]
               old == Placeholders(o)
               new == Placeholders(c)
               before == UNION {Placeholders(st[k]) : k \in Nodes}
           IN /\ Len(c.placeholders) = Len(o.placeholders)
              /\ Cardinality(new) = Cardinality(old)
              /\ new \cap old = {}
              /\ Range(Keys(c.placeholder_callbacks)) = new
              /\ \E f \in [old -> new] :
                   /\ \A a, b \in old : f[a] = f[b] => a = b
                   /\ f[o.public_T] = c.public_T
                   /\ f[o.public_t0] = c.public_t0
                   /\ \A k \in old \ {o.public_T, o.public_t0} :
                        f[k] > nsym /\ f[k] \notin before
                   /\ \A k \in old :
                        Get(c.placeholder_callbacks, f[k])
                          = Get(o.placeholder_callbacks, k)]_vars

\* a clone of a stage that has an at_t0 and an at_tf placeholder besides T
\* and t0
C11_Witness ==
    /\ Cloned
    /\ Len(st[Original].placeholders) = 4
    /\ {"at_t0", "at_tf"} \subseteq Range(Values(st[Original].placeholder_callbacks))
    /\ Len(st[last.ret].placeholders) = 4

(* --------------------------- clone overrides ---------------------------- *)
\* stage s holds a decision variable as time value tv, registered in its
\* own variables, with guess hint
FreeTimeVariable(s, tv, hint) ==
    /\ tv.k = "sym"
    /\ tv.v \in Range(s.variables[""])
    /\ Has(s.initial, <<tv.v>>)
    /\ Get(s.initial, <<tv.v>>) = hint

\* C12: after clone(parent, T=...) or stage(template, T=...) the clone's
\* horizon is the override, not the original's; for a free-time override the
\* clone has a horizon variable registered in its own variables, the
\* constraint horizon >= 0 in its constraint registry and the hint as the
\* guess of the horizon.  The same for t0, without the constraint.
C12_OverrideFreeTime ==
    Cloned =>
      LET c == st[last.ret]
      IN /\ last.kw.T.k = "num" => c.T = last.kw.T
         /\ last.kw.t0.k = "num" => c.t0 = last.kw.t0
         /\ IsFree(last.kw.T) =>
              /\ FreeTimeVariable(c, c.T, last.kw.T.v)
              /\ \E i \in 1..Len(c.constraints["point"]) :
                   c.constraints["point"][i].expr = <<c.T.v, 0>>
         /\ IsFree(last.kw.t0) => FreeTimeVariable(c, c.t0, last.kw.t0.v)

(* ------------------------- the shape of a clone ------------------------- *)
\* C13: a clone made without overrides has the original's states,
\* quadrature states, controls and algebraics (as many, in the same order),
\* as many parameters and variables per tag, a derivative and a next-state
\* entry wherever the original has one, and as many algebraic relations and
\* offset entries.
C13_IsomorphicClone ==
    (Cloned /\ last.kw = NoKw) =>
      LET c == st[last.ret]
          o == st[Original]
      IN /\ c.states = o.states
         /\ Len(c.qstates) = Len(o.qstates)
         /\ c.controls = o.controls
         /\ c.algebraics = o.algebraics
         /\ \A g \in Tags :
              /\ Len(c.parameters[g]) = Len(o.parameters[g])
              /\ Len(c.variables[g]) = Len(o.variables[g])
         /\ Keys(c.state_der) = Keys(o.state_der)
         /\ Keys(c.state_next) = Keys(o.state_next)
         /\ Len(c.alg) = Len(o.alg)
         /\ Len(c.offsets) = Len(o.offsets)

(* ------------------------- templates and methods ------------------------ *)
\* trees of up to MaxStages stages built with stage(), stage(template) and
\* clone(), with states, constraints and methods on any of them
InitTpl == Roots({NoKw}, "tpl", MaxCallsTpl, 0)
NextTpl ==
    \/ StateCall \/ SubjectToCall \/ MethodCall \/ StageCall \/ CloneCall
SpecTpl == InitTpl /\ [][NextTpl]_vars

\* the registries of a stage, its times, its method and its children
Registries(s) ==
    [states |-> s.states, qstates |-> s.qstates, controls |-> s.controls,
     algebraics |-> s.algebraics, parameters |-> s.parameters,
     variables |-> s.variables, state_der |-> s.state_der,
     state_next |-> s.state_next, alg |-> s.alg,
     constraints |-> s.constraints, objective |-> s.objective,
     initial |-> s.initial, placeholders |-> s.placeholders,
     placeholder_callbacks |-> s.placeholder_callbacks,
     offsets |-> s.offsets, T |-> s.T, t0 |-> s.t0, method |-> s.method]

InitPass == Roots({NoKw}, "pass", MaxCallsPass, 0)
NextPass ==
    \/ AtCall \/ StageCall \/ MethodNoneCall
    \/ TranscribeRecurseCall \/ PlaceholdersPassCall
SpecPass == InitPass /\ [][NextPass]_vars

\* the stages a pass started on n visits: n and its descendants
RECURSIVE Subtree(_)
Subtree(n) == {n} \cup UNION {Subtree(c) : c \in Range(st[n].stages)}

\* the callback invocations of the last call that resolved placeholder k
Fills(k) ==
    {i \in 1..Len(last.log) :
       last.log[i].call = "fill_placeholders" /\ last.log[i].arg = k}

\* C15: after a placeholder-resolution pass started with a result table,
\* every placeholder of a visited stage (one that has a method) that was not
\* in the table has been resolved by exactly one callback invocation, of its
\* recorded kind, with its owning stage and its raw source expression; a
\* placeholder that was in the table has had no invocation and its entry is
\* the one it had; nothing else was invoked.
C15_ResolvedOnce ==
    last.op = "_placeholders_transcribe_recurse" =>
      LET table == st[1].resolved
          pre == Range(last.e)
          visited == {s \in Subtree(last.node) : st[s].method # NoMethod}
      IN /\ last.raised = "none"
         /\ \A s \in visited : \A i \in 1..Len(st[s].placeholders) :
              LET k == st[s].placeholders[i][1]
              IN IF k \in pre
                 THEN Fills(k) = {}
                 ELSE /\ Cardinality(Fills(k)) = 1
                      /\ \A j \in Fills(k) : last.log[j].node = s
                      /\ Has(table, k)
                      /\ Get(table, k) =
                           [kind |-> Get(st[s].placeholder_callbacks, k),
                            stage |-> s, src |-> st[s].placeholders[i][2]]
         /\ \A k \in pre : Has(table, k) /\ Get(table, k) = Given
         /\ \A j \in 1..Len(last.log) :
              /\ last.log[j].call = "fill_placeholders"
              /\ last.log[j].node \in visited
              /\ last.log[j].arg \in Placeholders(st[last.log[j].node]) \ pre

\* a pass over a parent and a child that holds an at_t0 or at_tf
\* placeholder, started with a table that holds a placeholder of the child
C15_Witness ==
    /\ last.op = "_placeholders_transcribe_recurse"
    /\ last.e # <<>>
    /\ \E s \in Subtree(last.node) \ {last.node} :
         /\ last.e[1] \in Placeholders(st[s])
         /\ Len(st[s].placeholders) = 3
         /\ Fills(st[s].placeholders[3][1]) # {}

\* C16: a transcription pass that reaches a stage without a method fails,
\* and nothing is transcribed below that stage.
C16_MissingMethodIsFatal ==
    LET bare == {s \in Subtree(last.node) : st[s].method = NoMethod}
    IN (last.op = "_transcribe_recurse" /\ bare # {}) =>
         /\ last.raised # "none"
         /\ \A s \in bare : \A c \in Subtree(s) \ {s} :
              \A j \in 1..Len(last.log) : last.log[j].node # c

(* --------------------------- method objects ----------------------------- *)
\* C17: no two stages hold the same method object, and after method(m) the
\* stage does not hold the caller's object m.
C17_MethodsNeverShared ==
    /\ \A a, b \in Nodes : a # b => st[a].method.id # st[b].method.id
    /\ (last.op = "method" /\ last.raised = "none") =>
         /\ st[last.node].method.id # last.a
         /\ \A k \in Nodes : st[k].method.id # last.a

\* method(m) on a stage of a tree in which another stage is a clone of a
\* stage that was given a method
C17_Witness ==
    /\ last.op = "method"
    /\ last.raised = "none"
    /\ \E k \in Nodes \ {last.node} :
         /\ st[k].method.N >= 1
         /\ st[last.node].method.N >= 1
         /\ st[k].method.id # st[last.node].method.id

(* ------------------------------ the master ------------------------------ *)
\* C18 as claimed: in a tree built with the constructor and stage(), the
\* stage without a parent is the master: every node's master reference is
\* that stage, and the flag read through any node is that stage's flag.
C18_Original ==
    \A n \in Nodes :
      /\ (st[n].parent = None) <=> (n = 1)
      /\ st[n].master = 1
      /\ Flag(n) = st[1].is_transcribed

\* C18 amended: exactly one stage of the tree has no parent, the root.  When
\* the root is its own master (an Ocp), every node's master reference is the
\* root and the flag read through any node is the root's flag.  When the
\* root is a bare Stage it has no master, no node of the tree has one, and
\* the flag read through any node is false.
C18_OneMaster ==
    \A n \in Nodes :
      /\ (st[n].parent = None) <=> (n = 1)
      /\ IF st[1].master = 1
         THEN st[n].master = 1 /\ Flag(n) = st[1].is_transcribed
         ELSE st[n].master = None /\ ~Flag(n)

\* a root that is its own master, a child and a grandchild, the flag true
C18_Witness ==
    /\ Len(st) = 3
    /\ st[1].master = 1
    /\ st[2].parent = 1
    /\ st[3].parent = 2
    /\ Flag(3)


(* ------------------------- sampling on a grid --------------------------- *)
MaxCallsSample == 3

\* a method is chosen, sub-stages are made, expressions are sampled on every
\* grid string
InitSample == Roots({NoKw}, "sample", MaxCallsSample, 0)
NextSample == MethodCall \/ StageCall \/ SampleCall \/ GridIntegratorCall
SpecSample == InitSample /\ [][NextSample]_vars

\* the boundaries at which the last call evaluated the expression, in order
Sampled ==
    LET evals == SelectSeq(last.log, LAMBDA c : c.call = "eval_at_control")
    IN [j \in 1..Len(evals) |-> evals[j].arg]
\* the last call sampled on a control grid of N intervals and returned
SampledControl(grid) ==
    /\ last.op = "sample"
    /\ last.raised = "none"
    /\ last.e = grid

\* C19: with N control intervals, grid 'control' gives N+1 points, '-control'
\* and 'control-' give N points each, and '-control-' gives N-1 points.
C19_SampleCounts ==
    LET N == st[last.node].method.N
    IN /\ SampledControl(<<"control">>) => Len(Sampled) = N + 1
       /\ SampledControl(<<"-", "control">>) => Len(Sampled) = N
       /\ SampledControl(<<"control", "-">>) => Len(Sampled) = N
       /\ SampledControl(<<"-", "control", "-">>) => Len(Sampled) = N - 1

\* C20: a leading '-' drops the evaluation at boundary 0 and nothing else, a
\* trailing '-' drops the evaluation at boundary N (index -1) and nothing
\* else; the interior boundaries are always evaluated.
C20_DashDropsItsBoundary ==
    \A grid \in GridStrings :
      (SampledControl(grid) /\ parse_grid(grid)[1] = <<"control">>) =>
        LET N == st[last.node].method.N
            lead == Head(grid) = "-"
            trail == Last(grid) = "-"
        IN Sampled = (IF lead THEN <<>> ELSE <<0>>)
                     \o [i \in 1..(N - 1) |-> i]
                     \o (IF trail THEN <<>> ELSE <<-1>>)


\* the control boundary, counted from 0, that index k of eval_at_control names
Boundary(k, N) == IF k = -1 THEN N ELSE k

\* C21: on every control grid string the time vector returned by sample has
\* as many points as the value series has columns, and the i-th time is the
\* time of the boundary at which the i-th value was evaluated.
C21_TimeMatchesValues ==
    \A grid \in {<<"control">>, <<"-", "control">>, <<"control", "-">>,
                 <<"-", "control", "-">>} :
      SampledControl(grid) =>
        /\ Len(last.ret.time) = Len(last.ret.res)
        /\ \A i \in 1..Len(last.ret.res) :
             last.ret.time[i] = Boundary(last.ret.res[i], st[last.node].method.N)


\* the grid name that is left of the string of the last call
GridName == parse_grid(last.e)[1]
\* the calls of the point evaluators that the last call made, in order
Evaluations ==
    SelectSeq(last.log,
              LAMBDA c : c.call \in {"eval_at_control", "eval_at_integrator",
                                     "eval_at_integrator_root"})
\* the last call sampled, without refine, with a method whose evaluator fails
\* on a point that the call reached
SampledOverFailure ==
    /\ last.op = "sample"
    /\ last.a = None
    /\ GridName \in {<<"control">>, <<"integrator">>, <<"integrator_roots">>}
    /\ \E j \in 1..Len(last.log) :
         <<last.log[j].call, last.log[j].arg>> \in st[last.node].method.bad

\* C22: an index-range failure of a point evaluator during sample on the
\* control, integrator and integrator_roots grids is recovered: sample does
\* not fail, the point's value is the not-a-number fill, and the points after
\* it are still evaluated.
C22_IndexErrorRecovered ==
    SampledOverFailure =>
      /\ last.raised = "none"
      /\ \A j \in 1..Len(last.log) :
           <<last.log[j].call, last.log[j].arg>> \in st[last.node].method.bad
             => \E i \in last.ret.nan : last.ret.res[i] = last.log[j].arg
      /\ Len(Evaluations) = Len(last.ret.res)


(* ------------------------- formulation calls ---------------------------- *)
MaxCallsForm == 3

NextPrevCall ==
    /\ ncalls < run.budget
    /\ \E n \in Nodes :
         \E expr \in ExprIn(n) :
           \/ Commit(next(World, n, expr), "next", n, 0, expr, "", NoKw)
           \/ Commit(prev(World, n, expr), "prev", n, 0, expr, "", NoKw)

\* states, controls of any order, rules, integrals, sums and offsets on one
\* stage
InitForm == Roots({NoKw}, "form", MaxCallsForm, 2)
NextForm ==
    \/ StateCall \/ ControlCall \/ SetDerCall \/ SetNextCall
    \/ IntegralCall \/ SumCall \/ OffsetCall \/ NextPrevCall
SpecForm == InitForm /\ [][NextForm]_vars

\* the last call was op and returned
Returned(ops) == Called /\ last'.op \in ops /\ last'.raised = "none"

\* C23: integral and sum with grid 'inf' each add one quadrature state, record
\* expr as its derivative and return an at_tf placeholder on that state; with
\* grid 'control' they add no state and register one placeholder of kind
\* integral_control or sum_control whose source is expr.
C23_IntegralAndSum ==
    [][Returned({"integral", "sum"}) =>
         LET o == st[last'.node]
             c == st'[last'.node]
             r == last'.ret
         IN /\ c.states = o.states
            /\ Keys(c.placeholders) = Append(Keys(o.placeholders), r)
            /\ IF last'.g = "inf"
               THEN /\ Len(c.qstates) = Len(o.qstates) + 1
                    /\ SubSeq(c.qstates, 1, Len(o.qstates)) = o.qstates
                    /\ Last(c.qstates) > nsym
                    /\ Has(c.state_der, Last(c.qstates))
                    /\ Get(c.state_der, Last(c.qstates)) = last'.e
                    /\ Get(c.placeholder_callbacks, r) = "at_tf"
                    /\ Get(c.placeholders, r) = <<Last(c.qstates)>>
               ELSE /\ c.qstates = o.qstates
                    /\ c.state_der = o.state_der
                    /\ Get(c.placeholder_callbacks, r) = last'.op \o "_control"
                    /\ Get(c.placeholders, r) = last'.e]_vars


\* C24: offset with a non-integer shift fails and leaves the stage as it
\* was; with an integer shift k it adds the one entry (expr, k) to the offset
\* map under a new symbol, which it returns, and nothing to the placeholder
\* registry; next records shift +1 and prev shift -1.
C24_OffsetRecordsShift ==
    [][(Called /\ last'.op \in {"offset", "next", "prev"}) =>
         LET o == st[last'.node]
             c == st'[last'.node]
             r == last'.ret
             k == CASE last'.op = "next" -> 1
                    [] last'.op = "prev" -> -1
                    [] OTHER -> last'.a \div 2
         IN IF last'.op = "offset" /\ last'.a % 2 # 0
            THEN last'.raised # "none" /\ st' = st /\ nsym' = nsym
            ELSE /\ last'.raised = "none"
                 /\ r > nsym
                 /\ c.offsets = Append(o.offsets, <<r, <<last'.e, k>>>>)
                 /\ c.placeholders = o.placeholders
                 /\ c.placeholder_callbacks = o.placeholder_callbacks]_vars
\* offset(expr, 1.5) has failed on a stage that holds an entry of shift +1 and
\* one of shift -1
C24_Witness ==
    /\ last.op = "offset" /\ last.a = 3 /\ last.raised # "none"
    /\ \E i, j \in 1..Len(st[last.node].offsets) :
         /\ st[last.node].offsets[i][2][2] = 1
         /\ st[last.node].offsets[j][2][2] = -1


\* C25: on a stage without next-state rules control(order=k) with k >= 1 adds
\* k new states and one new raw control, returns the first new state, which is
\* no control, and makes the derivative of each new state the next new state
\* and that of the last new state the raw control; control(order=0) adds one
\* control, no state and no derivative.
C25_ControlOrder ==
    [][(Called /\ last'.op = "control" /\ st[last'.node].state_next = <<>>) =>
         LET o == st[last'.node]
             c == st'[last'.node]
             k == last'.a
             new == SubSeq(c.states, Len(o.states) + 1, Len(c.states))
             raw == Last(c.controls)
         IN /\ last'.raised = "none"
            /\ Len(new) = k
            /\ SubSeq(c.states, 1, Len(o.states)) = o.states
            /\ c.controls = Append(o.controls, raw)
            /\ raw > nsym
            /\ \A i \in 1..k : new[i] > nsym /\ new[i] # raw
            /\ \A i, j \in 1..k : i # j => new[i] # new[j]
            /\ last'.ret = (IF k >= 1 THEN new[1] ELSE raw)
            /\ Len(c.state_der) = Len(o.state_der) + k
            /\ Range(Keys(c.state_der)) =
                 Range(Keys(o.state_der)) \cup Range(new)
            /\ \A x \in Range(Keys(o.state_der)) :
                 Get(c.state_der, x) = Get(o.state_der, x)
            /\ \A i \in 1..k :
                 Get(c.state_der, new[i]) =
                   (IF i < k THEN <<new[i + 1]>> ELSE <<raw>>)]_vars
\* control(order=2) has returned on a stage that had a state with a
\* derivative before
C25_Witness ==
    /\ last.op = "control" /\ last.a = 2 /\ last.raised = "none"
    /\ Len(st[last.node].states) >= 3
    /\ Len(st[last.node].state_der) >= 3


\* the last call ran the integrator grid without refine, with these flags, on
\* a method whose evaluators do not fail
OnIntegratorGrid(include_first, include_last) ==
    /\ st[last.node].method.bad = {}
    /\ \/ /\ last.op = "_grid_integrator"
          /\ last.e = <<include_first, include_last>>
       \/ /\ last.op = "sample"
          /\ last.a = None
          /\ GridName = <<"integrator">>
          /\ parse_grid(last.e)[2] = include_first
          /\ parse_grid(last.e)[3] = include_last
          /\ st[last.node].master # None
          /\ st[last.node].method.N >= 1
\* the evaluator calls of the last call as <<evaluator, index>>
Evaluated == [j \in 1..Len(Evaluations) |->
                <<Evaluations[j].call, Evaluations[j].arg>>]

\* C26: the integrator grid without refine requires include_first; it
\* evaluates the N * M sub-steps in the order of increasing (k, l), sub-step
\* (k, l) being index k * M + l, and then the final control boundary exactly
\* once if include_last holds and not at all otherwise.
C26_IntegratorGrid ==
    \A include_first, include_last \in BOOLEAN :
      OnIntegratorGrid(include_first, include_last) =>
        LET m == st[last.node].method
        IN IF ~include_first
           THEN last.raised = "AssertionError" /\ Evaluated = <<>>
           ELSE /\ last.raised = "none"
                /\ Evaluated =
                     [i \in 1..(m.N * m.M) |-> <<"eval_at_integrator", i - 1>>]
                     \o (IF include_last THEN <<<<"eval_at_control", -1>>>>
                         ELSE <<>>)
\* sample on 'integrator-' has returned for a method with several intervals
\* and several sub-steps
C26_Witness ==
    /\ OnIntegratorGrid(TRUE, FALSE)
    /\ last.op = "sample"
    /\ st[last.node].method.N > 1 /\ st[last.node].method.M > 1
    /\ last.raised = "none"


\* the last call sampled the integrator grid with refine = r on a method
\* with polynomial coefficients whose evaluators do not fail
OnFineGrid(r) ==
    /\ last.op = "sample"
    /\ r # None /\ last.a = r
    /\ last.e = <<"integrator">>
    /\ st[last.node].master # None
    /\ st[last.node].method.N >= 1
    /\ st[last.node].method.poly
    /\ st[last.node].method.bad = {}

\* C27: sample on 'integrator' with refine = r returns N * M * r + 1 times:
\* for each sub-step its r evenly spaced times from its start, its end left
\* out, and then the end of the last sub-step, once and last.  A sub-step
\* lasts r units of time here, so sub-step s starts at s * r.
C27_FineGridTimes ==
    \A r \in 1..MaxVal :
      OnFineGrid(r) =>
        LET m == st[last.node].method
            time == last.ret.time
        IN /\ last.raised = "none"
           /\ Len(time) = m.N * m.M * r + 1
           /\ Len(last.ret.res) = Len(time)
           /\ \A s \in 0..(m.N * m.M - 1) : \A i \in 0..(r - 1) :
                time[s * r + i + 1] = s * r + i
           /\ time[Len(time)] = m.N * m.M * r
           /\ \A p \in 1..(Len(time) - 1) : time[p] # time[Len(time)]
\* a fine sample with several points per sub-step, several sub-steps and
\* several intervals
C27_Witness ==
    /\ OnFineGrid(MaxVal)
    /\ st[last.node].method.N > 1 /\ st[last.node].method.M > 1
    /\ last.raised = "none"


GridNames == {<<"control">>, <<"integrator">>, <<"integrator_roots">>}

MaxCallsVisit == 4

\* trees of up to MaxStagesVisit stages, stages that lost their method, and
\* passes started on any node
InitVisit == Roots({NoKw}, "visit", MaxCallsVisit, 0)
NextVisit == StageCall \/ MethodNoneCall \/ TranscribeRecurseCall
SpecVisit == InitVisit /\ [][NextVisit]_vars

\* stage n is stage r or lies below it, by the parent references
RECURSIVE Under(_, _)
Under(n, r) ==
    \/ n = r
    \/ st[n].parent # None /\ Under(st[n].parent, r)
\* the stages the last call came to, in the order it came to them
Visits ==
    LET seen == SelectSeq(last.log, LAMBDA c : c.call \in {"transcribe", "print"})
    IN [j \in 1..Len(seen) |-> seen[j].node]
Pos(n) == CHOOSE j \in 1..Len(Visits) : Visits[j] = n
\* the last call was a pass started on a master that has a method
PassFromMaster ==
    /\ last.op = "_transcribe_recurse"
    /\ st[last.node].master = last.node
    /\ st[last.node].method # NoMethod

\* C29: a pass from the master comes to every stage of the tree exactly once,
\* a parent before its children and the whole subtree of an earlier-created
\* sibling before a later sibling; main_transcribe is called once, on the
\* master, before any transcribe; transcribe is called once on every stage
\* that has a method and on no other.
C29_PassOrder ==
    PassFromMaster =>
      LET tree == {n \in Nodes : Under(n, last.node)}
          calls(name) == SelectSeq(last.log, LAMBDA c : c.call = name)
      IN /\ last.raised = "none"
         /\ Len(Visits) = Cardinality(tree)
         /\ Range(Visits) = tree
         /\ Visits[1] = last.node
         /\ \A n \in tree \ {last.node} : Pos(st[n].parent) < Pos(n)
         /\ \A a, b \in tree :
              (a < b /\ st[a].parent = st[b].parent) =>
                \A c \in tree : Under(c, a) => Pos(c) < Pos(b)
         /\ Len(calls("main_transcribe")) = 1
         /\ last.log[1] = [call |-> "main_transcribe", node |-> last.node,
                           arg |-> 0]
         /\ \A n \in tree :
              Cardinality({j \in 1..Len(last.log) :
                             last.log[j].call = "transcribe"
                             /\ last.log[j].node = n})
                = (IF st[n].method # NoMethod THEN 1 ELSE 0)
\* a pass over a tree in which a stage below the first child was created after
\* the second child
C29_Witness ==
    /\ PassFromMaster
    /\ \E a, b, c \in Nodes :
         /\ st[a].parent = last.node /\ st[b].parent = last.node
         /\ st[c].parent = a /\ a < b /\ b < c


\* C30: a set_der, set_next, integral or control call that ends in an error
\* leaves the states, quadrature states, controls, derivative map and
\* next-state map of its stage as they were before the call.
C30_FailedCallChangesNothing ==
    [][(Called /\ last'.raised # "none"
        /\ last'.op \in {"set_der", "set_next", "integral", "control"}) =>
         LET o == st[last'.node]
             c == st'[last'.node]
         IN /\ c.state_der = o.state_der
            /\ c.state_next = o.state_next
            /\ c.states = o.states
            /\ c.qstates = o.qstates
            /\ c.controls = o.controls]_vars

====
